---- MODULE Spec2Model ----
(***************************************************************************)
(* Model of the topology generators of the repository:                     *)
(*   - ripl/leafspinetopo.py: NodeID / LeafSpineNodeID (handle, name and   *)
(*     address encodings), StructuredTopo (layer queries, port parity) and *)
(*     LeafSpineTopo.__init__ (the k-parameterised build);                 *)
(*   - leaf-spine.py: MyTopo.__init__ (the fixed leaf-spine build).        *)
(*                                                                         *)
(* The code is Python 2 (range(0, k / 2) needs an integer quotient), so    *)
(* k / 2 is the floor division.  Python integers are unbounded: the shifts *)
(* and masks are modelled by the arithmetic they compute on non-negative   *)
(* integers.  Strings are sequences of one-character strings.  None is the *)
(* empty sequence <<>>, a present optional value v is <<v>>.               *)
(*                                                                         *)
(* mininet.topo.Topo is an external library: addSwitch/addHost add a named *)
(* vertex with its options, addLink adds an undirected edge with its       *)
(* options; g[name] enumerates the neighbours of name.                     *)
(***************************************************************************)
EXTENDS Integers, Sequences, FiniteSets, TLC

\* ---------------------------------------------------------------- bounds
MaxK == 4          \* LeafSpineTopo is built for every k in 0..MaxK
MaxSpeed == 2      \* speed argument (Gbps) drawn from 1..MaxSpeed
MaxPort == 6       \* ports queried: 0..MaxPort
MaxField == 2      \* small coordinate fields 0..MaxField (plus the lane edges)

\* coordinate fields handed to LeafSpineNodeID(sw, host): small values, a
\* one-digit/two-digit boundary, and both sides of the 8-bit lane boundary
FieldVals == (0 .. MaxField) \cup {9, 10, 255, 256, 257}

\* -------------------------------------------------------- program constants
PORT_BASE == 1
LAYER_SPINE == 0
LAYER_LEAF == 1
LAYER_HOST == 2

numSpine == 1
numLeaf == 2
numHostPerLeaf == 2
bwSpineLeaf == 40
bwLeafHost == 10
delaySpineLeaf == "0.004ms"
delayLeafHost == "0.004ms"

None == <<>>

\* ------------------------------------------------- string conversions
\* the digit characters used by "%i", str() and "%x"
HexDigits == <<"0", "1", "2", "3", "4", "5", "6", "7", "8", "9",
               "a", "b", "c", "d", "e", "f">>

RECURSIVE ToBase(_, _)
\* digits of the non-negative integer n in base b, most significant first
ToBase(n, b) ==
    IF n < b THEN <<HexDigits[n + 1]>>
    ELSE ToBase(n \div b, b) \o <<HexDigits[(n % b) + 1]>>

\* "%i" % n and str(n), n >= 0
str(n) == ToBase(n, 10)

RECURSIVE ZeroPad(_, _)
\* left-pad s with "0" to width w (a longer s is left as it is)
ZeroPad(s, w) == IF Len(s) >= w THEN s ELSE ZeroPad(<<"0">> \o s, w)

\* "%02x" % n and "%016x" % n
FmtHex(n, w) == ZeroPad(ToBase(n, 16), w)

\* value of one decimal digit character
DigitVal(c) == CHOOSE d \in 0 .. 9 : HexDigits[d + 1] = c

RECURSIVE int(_)
\* int(s) for a non-empty string of decimal digits
int(s) ==
    IF Len(s) = 1 THEN DigitVal(s[1])
    ELSE 10 * int(SubSeq(s, 1, Len(s) - 1)) + DigitVal(s[Len(s)])

RECURSIVE split(_, _)
\* s.split(sep): the pieces of s between occurrences of the character sep
split(s, sep) ==
    IF \A p \in 1 .. Len(s) : s[p] # sep THEN <<s>>
    ELSE LET p == CHOOSE q \in 1 .. Len(s) :
                     s[q] = sep /\ \A r \in 1 .. (q - 1) : s[r] # sep
         IN  <<SubSeq(s, 1, p - 1)>> \o split(SubSeq(s, p + 1, Len(s)), sep)

\* ------------------------------------------------- LeafSpineNodeID
\* a shift by 4 in place of 8
SwOfDpid_shift4(dpid) == ((dpid \div 256) % 256) * 16

\* (dpid & 0xff00) >> 8
SwOfDpid(dpid) == (dpid \div 256) % 256

\* dpid & 0xff
HostOfDpid(dpid) == dpid % 256

\* (sw << 8) + host
DpidOf(sw, host) == (sw * 256) + host

\* LeafSpineNodeID.__init__(sw, host, dpid, name); dpid and name are optional
\* values.  "if dpid:" is false for None and for 0, "elif name:" is false for
\* None and for the empty string.
LeafSpineNodeID(sw, host, dpid, name) ==
    IF dpid # None /\ dpid[1] # 0
    THEN [sw |-> SwOfDpid(dpid[1]), host |-> HostOfDpid(dpid[1]),
          dpid |-> dpid[1]]
    ELSE IF name # None /\ name[1] # <<>>
    THEN LET f == split(name[1], "_")
         IN  [sw |-> int(f[1]), host |-> int(f[2]),
              dpid |-> DpidOf(int(f[1]), int(f[2]))]
    ELSE [sw |-> sw, host |-> host, dpid |-> DpidOf(sw, host)]

\* the two fields in the wrong order
name_str_swapped(id) == str(id.host) \o <<"_">> \o str(id.sw)

\* LeafSpineNodeID.name_str: "%i_%i" % (sw, host)
name_str(id) == str(id.sw) \o <<"_">> \o str(id.host)

\* LeafSpineNodeID.mac_str: "00:00:00:00:%02x:%02x" % (sw, host)
mac_str(id) ==
    <<"0", "0", ":", "0", "0", ":", "0", "0", ":", "0", "0", ":">>
        \o FmtHex(id.sw, 2) \o <<":">> \o FmtHex(id.host, 2)

\* LeafSpineNodeID.ip_str: "10.0.%i.%i" % (sw, host)
ip_str(id) ==
    <<"1", "0", ".", "0", ".">> \o str(id.sw) \o <<".">> \o str(id.host)

\* ------------------------------------------------------------- state
VARIABLES
    pc,          \* position of the running constructor / caller
    k,           \* LeafSpineTopo.k (the k argument)
    speed,       \* the speed argument of LeafSpineTopo.__init__
    node_specs,  \* StructuredTopo.node_specs (list, one spec per layer)
    edge_specs,  \* StructuredTopo.edge_specs (list)
    nodes,       \* Topo.g.nodes(): the vertex names
    node_info,   \* Topo.node_info: name -> options of the vertex
    links,       \* Topo.g edges: records [node1, node2, bw, delay]
    spines,      \* local list spines (both builds)
    leafs,       \* local list leafs (MyTopo)
    hosts,       \* local list hosts (MyTopo)
    s, l, h,     \* loop variables of LeafSpineTopo.__init__ (s: position)
    i, j,        \* loop variables of MyTopo.__init__
    ident,       \* identifier built from coordinate fields (optional)
    byHandle,    \* identifier rebuilt from ident's handle (optional)
    nameOut,     \* ident.name_str() (optional)
    byName,      \* identifier rebuilt from nameOut (optional)
    port,        \* last port passed to isPortUp (optional)
    portUp       \* the value isPortUp returned for it (optional)

topoVars == <<k, speed, node_specs, edge_specs, nodes, node_info, links,
              spines, leafs, hosts, s, l, h, i, j>>
idVars == <<ident, byHandle, nameOut, byName>>
portVars == <<port, portUp>>
vars == <<pc, topoVars, idVars, portVars>>

\* ------------------------------------------------- StructuredTopo
\* StructuredNodeSpec.__init__
StructuredNodeSpec(up_total, down_total, up_speed, down_speed, type_str) ==
    [up_total |-> up_total, down_total |-> down_total,
     up_speed |-> up_speed, down_speed |-> down_speed, type_str |-> type_str]

\* StructuredEdgeSpec.__init__
StructuredEdgeSpec(sp) == [speed |-> sp]

\* StructuredTopo.layer: node_info[name]['layer']
layer(name) == node_info[name].layer[1]

\* the parity test against 0 in place of PORT_BASE
isPortUp_even(p) == (p % 2) = 0

\* StructuredTopo.isPortUp
isPortUp(p) == (p % 2) = PORT_BASE

\* g[name]: the neighbours of name in the undirected graph
g(name) == {e.node2 : e \in {x \in links : x.node1 = name}}
              \cup {e.node1 : e \in {x \in links : x.node2 = name}}

\* StructuredTopo.layer_nodes
layer_nodes(L) == {n \in nodes : layer(n) = L}

\* StructuredTopo.up_nodes
up_nodes(name) == {n \in g(name) : layer(n) = layer(name) - 1}

\* StructuredTopo.down_nodes
down_nodes(name) == {n \in g(name) : layer(n) = layer(name) + 1}

\* StructuredTopo.up_edges
up_edges(name) == {<<name, n>> : n \in up_nodes(name)}

\* StructuredTopo.down_edges
down_edges(name) == {<<name, n>> : n \in down_nodes(name)}

\* ------------------------------------------------- Topo (mininet)
\* the options record stored for a vertex; absent keys are None
NodeOpts(lay, ip, mac, dpid, isSwitch) ==
    [layer |-> lay, ip |-> ip, mac |-> mac, dpid |-> dpid,
     isSwitch |-> isSwitch]

\* node_info after Topo.addSwitch / Topo.addHost (name, **opts)
addNode(name, opts) ==
    [n \in nodes \cup {name} |-> IF n = name THEN opts ELSE node_info[n]]

\* the edge Topo.addLink(node1, node2, **opts) adds
Link(node1, node2, bw, delay) ==
    [node1 |-> node1, node2 |-> node2, bw |-> bw, delay |-> delay]

\* ------------------------------------------------- LeafSpineTopo
\* LeafSpineTopo.def_nopts(layer, name) followed by addSwitch / addHost,
\* which records whether the vertex is a switch
def_nopts(lay, name, isSwitch) ==
    LET id == LeafSpineNodeID(0, 0, None, <<name>>)
    IN  IF name = <<>> THEN NodeOpts(<<lay>>, None, None, None, isSwitch)
        ELSE NodeOpts(<<lay>>,
                      IF lay = LAYER_HOST THEN <<ip_str(id)>> ELSE None,
                      IF lay = LAYER_HOST THEN <<mac_str(id)>> ELSE None,
                      <<FmtHex(id.dpid, 16)>>,
                      isSwitch)

\* spine_id = self.id_gen(0, s).name_str()
spine_id == name_str(LeafSpineNodeID(0, s, None, None))

\* leaf_id = self.id_gen(1, l).name_str()
leaf_id == name_str(LeafSpineNodeID(1, l, None, None))

\* host_id = self.id_gen(2, l * (k / 2) + h).name_str()
host_id == name_str(LeafSpineNodeID(2, l * (k[1] \div 2) + h, None, None))

\* every leaf given k hosts in place of k / 2
HostsPerLeaf_k == k[1]

\* the bound of range(0, k / 2), the hosts added under one leaf
HostsPerLeaf == k[1] \div 2

\* the bound of range(0, k * 2), the leaves added
LeafCount == k[1] * 2

\* the list node_specs = [leaf, spine, host] of LeafSpineTopo.__init__
NodeSpecs(kk, sp) ==
    LET spine == StructuredNodeSpec(0, kk * 2, None, <<sp>>, "spine")
        leaf == StructuredNodeSpec(kk, kk \div 2, <<sp>>, <<sp>>, "leaf")
        host == StructuredNodeSpec(1, 0, <<sp>>, None, "host")
    IN  <<leaf, spine, host>>

\* edge_specs = [StructuredEdgeSpec(speed)] * 2
EdgeSpecs(sp) == <<StructuredEdgeSpec(sp), StructuredEdgeSpec(sp)>>

\* ------------------------------------------------------------- Init
Init ==
    /\ pc = "start"
    /\ k = None /\ speed = None
    /\ node_specs = <<>> /\ edge_specs = <<>>
    /\ nodes = {} /\ node_info = <<>> /\ links = {}
    /\ spines = <<>> /\ leafs = <<>> /\ hosts = <<>>
    /\ s = 0 /\ l = 0 /\ h = 0 /\ i = 0 /\ j = 0
    /\ ident = None /\ byHandle = None /\ nameOut = None /\ byName = None
    /\ port = None /\ portUp = None

\* ------------------------------------------- LeafSpineTopo.__init__
\* the specs, self.k and self.id_gen; spines = []
LS_Start ==
    /\ pc = "start"
    /\ \E kk \in 0 .. MaxK, sp \in 1 .. MaxSpeed :
          /\ k' = <<kk>>
          /\ speed' = <<sp>>
          /\ node_specs' = NodeSpecs(kk, sp)
          /\ edge_specs' = EdgeSpecs(sp)
    /\ spines' = <<>>
    /\ s' = 0
    /\ pc' = "spine_loop"
    /\ UNCHANGED <<nodes, node_info, links, leafs, hosts, l, h, i, j>>
    /\ UNCHANGED <<idVars, portVars>>

\* for s in range(0, k): addSwitch(spine_id, **spine_opts); spines.append
LS_AddSpine ==
    /\ pc = "spine_loop"
    /\ s < k[1]
    /\ nodes' = nodes \cup {spine_id}
    /\ node_info' = addNode(spine_id, def_nopts(LAYER_SPINE, spine_id, TRUE))
    /\ spines' = Append(spines, spine_id)
    /\ s' = s + 1
    /\ UNCHANGED <<pc, k, speed, node_specs, edge_specs, links, leafs, hosts,
                   l, h, i, j>>
    /\ UNCHANGED <<idVars, portVars>>

\* range(0, k) exhausted: enter for l in range(0, k * 2)
LS_SpinesDone ==
    /\ pc = "spine_loop"
    /\ s >= k[1]
    /\ l' = 0
    /\ pc' = "leaf_loop"
    /\ UNCHANGED <<k, speed, node_specs, edge_specs, nodes, node_info, links,
                   spines, leafs, hosts, s, h, i, j>>
    /\ UNCHANGED <<idVars, portVars>>

\* for l in range(0, k * 2): addSwitch(leaf_id, **leaf_opts)
LS_AddLeaf ==
    /\ pc = "leaf_loop"
    /\ l < LeafCount
    /\ nodes' = nodes \cup {leaf_id}
    /\ node_info' = addNode(leaf_id, def_nopts(LAYER_LEAF, leaf_id, TRUE))
    /\ h' = 0
    /\ pc' = "host_loop"
    /\ UNCHANGED <<k, speed, node_specs, edge_specs, links, spines, leafs,
                   hosts, s, l, i, j>>
    /\ UNCHANGED <<idVars, portVars>>

\* for h in range(0, k / 2): addHost(host_id, **host_opts)
LS_AddHost ==
    /\ pc = "host_loop"
    /\ h < HostsPerLeaf
    /\ nodes' = nodes \cup {host_id}
    /\ node_info' = addNode(host_id, def_nopts(LAYER_HOST, host_id, FALSE))
    /\ pc' = "host_link"
    /\ UNCHANGED <<k, speed, node_specs, edge_specs, links, spines, leafs,
                   hosts, s, l, h, i, j>>
    /\ UNCHANGED <<idVars, portVars>>

\* the host linked to the first spine in place of its leaf
HostLink_toSpine == Link(host_id, spines[1], None, None)

\* the link addLink(host_id, leaf_id) adds: no options are passed
HostLink == Link(host_id, leaf_id, None, None)

\* self.addLink(host_id, leaf_id)
LS_LinkHost ==
    /\ pc = "host_link"
    /\ links' = links \cup {HostLink}
    /\ h' = h + 1
    /\ pc' = "host_loop"
    /\ UNCHANGED <<k, speed, node_specs, edge_specs, nodes, node_info, spines,
                   leafs, hosts, s, l, i, j>>
    /\ UNCHANGED <<idVars, portVars>>

\* range(0, k / 2) exhausted: enter for s in spines
LS_HostsDone ==
    /\ pc = "host_loop"
    /\ h >= HostsPerLeaf
    /\ s' = 0
    /\ pc' = "uplink_loop"
    /\ UNCHANGED <<k, speed, node_specs, edge_specs, nodes, node_info, links,
                   spines, leafs, hosts, l, h, i, j>>
    /\ UNCHANGED <<idVars, portVars>>

\* the link addLink(leaf_id, s) adds, s the spine at position s of spines
SpineLink == Link(leaf_id, spines[s + 1], None, None)

\* for s in spines: self.addLink(leaf_id, s)
LS_LinkSpine ==
    /\ pc = "uplink_loop"
    /\ s < Len(spines)
    /\ links' = links \cup {SpineLink}
    /\ s' = s + 1
    /\ UNCHANGED <<pc, k, speed, node_specs, edge_specs, nodes, node_info,
                   spines, leafs, hosts, l, h, i, j>>
    /\ UNCHANGED <<idVars, portVars>>

\* spines exhausted: next l
LS_SpinesLinked ==
    /\ pc = "uplink_loop"
    /\ s >= Len(spines)
    /\ l' = l + 1
    /\ pc' = "leaf_loop"
    /\ UNCHANGED <<k, speed, node_specs, edge_specs, nodes, node_info, links,
                   spines, leafs, hosts, s, h, i, j>>
    /\ UNCHANGED <<idVars, portVars>>

\* range(0, k * 2) exhausted: __init__ returns the built topology
LS_Done ==
    /\ pc = "leaf_loop"
    /\ l >= LeafCount
    /\ pc' = "done"
    /\ UNCHANGED <<topoVars, idVars, portVars>>

\* a caller asks the built topology isPortUp(p)
LS_isPortUp ==
    /\ pc = "done"
    /\ \E p \in 0 .. MaxPort :
          /\ port' = <<p>>
          /\ portUp' = <<isPortUp(p)>>
    /\ UNCHANGED <<pc, topoVars, idVars>>

\* ------------------------------------------------- MyTopo.__init__
\* Topo.__init__(self); spines = []
My_Start ==
    /\ pc = "start"
    /\ spines' = <<>>
    /\ i' = 0
    /\ pc' = "my_spines"
    /\ UNCHANGED <<k, speed, node_specs, edge_specs, nodes, node_info, links,
                   leafs, hosts, s, l, h, j>>
    /\ UNCHANGED <<idVars, portVars>>

\* the vertex name prefix + str(n)
MyName(prefix, n) == <<prefix>> \o str(n)

\* for i in range(0, numSpine): spines.append(self.addSwitch('s'+str(i)))
My_AddSpine ==
    /\ pc = "my_spines"
    /\ i < numSpine
    /\ nodes' = nodes \cup {MyName("s", i)}
    /\ node_info' = addNode(MyName("s", i),
                            NodeOpts(None, None, None, None, TRUE))
    /\ spines' = Append(spines, MyName("s", i))
    /\ i' = i + 1
    /\ UNCHANGED <<pc, k, speed, node_specs, edge_specs, links, leafs, hosts,
                   s, l, h, j>>
    /\ UNCHANGED <<idVars, portVars>>

\* range(0, numSpine) exhausted: leafs = []
My_SpinesDone ==
    /\ pc = "my_spines"
    /\ i >= numSpine
    /\ leafs' = <<>>
    /\ i' = 0
    /\ pc' = "my_leafs"
    /\ UNCHANGED <<k, speed, node_specs, edge_specs, nodes, node_info, links,
                   spines, hosts, s, l, h, j>>
    /\ UNCHANGED <<idVars, portVars>>

\* for i in range(0, numLeaf): leafs.append(self.addSwitch('l'+str(i)))
My_AddLeaf ==
    /\ pc = "my_leafs"
    /\ i < numLeaf
    /\ nodes' = nodes \cup {MyName("l", i)}
    /\ node_info' = addNode(MyName("l", i),
                            NodeOpts(None, None, None, None, TRUE))
    /\ leafs' = Append(leafs, MyName("l", i))
    /\ i' = i + 1
    /\ UNCHANGED <<pc, k, speed, node_specs, edge_specs, links, spines, hosts,
                   s, l, h, j>>
    /\ UNCHANGED <<idVars, portVars>>

\* range(0, numLeaf) exhausted: hosts = []
My_LeafsDone ==
    /\ pc = "my_leafs"
    /\ i >= numLeaf
    /\ hosts' = <<>>
    /\ i' = 0
    /\ pc' = "my_hosts"
    /\ UNCHANGED <<k, speed, node_specs, edge_specs, nodes, node_info, links,
                   spines, leafs, s, l, h, j>>
    /\ UNCHANGED <<idVars, portVars>>

\* for i in range(0, numHostPerLeaf*numLeaf): hosts.append(addHost('h'+str(i)))
My_AddHost ==
    /\ pc = "my_hosts"
    /\ i < numHostPerLeaf * numLeaf
    /\ nodes' = nodes \cup {MyName("h", i)}
    /\ node_info' = addNode(MyName("h", i),
                            NodeOpts(None, None, None, None, FALSE))
    /\ hosts' = Append(hosts, MyName("h", i))
    /\ i' = i + 1
    /\ UNCHANGED <<pc, k, speed, node_specs, edge_specs, links, spines, leafs,
                   s, l, h, j>>
    /\ UNCHANGED <<idVars, portVars>>

\* range(0, numHostPerLeaf*numLeaf) exhausted: enter the spine-leaf loops
My_HostsDone ==
    /\ pc = "my_hosts"
    /\ i >= numHostPerLeaf * numLeaf
    /\ i' = 0
    /\ j' = 0
    /\ pc' = "my_spine_leaf"
    /\ UNCHANGED <<k, speed, node_specs, edge_specs, nodes, node_info, links,
                   spines, leafs, hosts, s, l, h>>
    /\ UNCHANGED <<idVars, portVars>>

\* the link addLink(spines[i], leafs[j], bw=bwSpineLeaf, delay=delaySpineLeaf)
SpineLeafLink ==
    Link(spines[i + 1], leafs[j + 1], <<bwSpineLeaf>>, <<delaySpineLeaf>>)

\* for i in range(0, numSpine): for j in range(0, numLeaf): addLink(...)
My_LinkSpineLeaf ==
    /\ pc = "my_spine_leaf"
    /\ i < numSpine
    /\ j < numLeaf
    /\ links' = links \cup {SpineLeafLink}
    /\ j' = j + 1
    /\ UNCHANGED <<pc, k, speed, node_specs, edge_specs, nodes, node_info,
                   spines, leafs, hosts, s, l, h, i>>
    /\ UNCHANGED <<idVars, portVars>>

\* inner range(0, numLeaf) exhausted: next i
My_SpineLeafNext ==
    /\ pc = "my_spine_leaf"
    /\ i < numSpine
    /\ j >= numLeaf
    /\ i' = i + 1
    /\ j' = 0
    /\ UNCHANGED <<pc, k, speed, node_specs, edge_specs, nodes, node_info,
                   links, spines, leafs, hosts, s, l, h>>
    /\ UNCHANGED <<idVars, portVars>>

\* outer range(0, numSpine) exhausted: enter the leaf-host loops
My_SpineLeafDone ==
    /\ pc = "my_spine_leaf"
    /\ i >= numSpine
    /\ i' = 0
    /\ j' = 0
    /\ pc' = "my_leaf_host"
    /\ UNCHANGED <<k, speed, node_specs, edge_specs, nodes, node_info, links,
                   spines, leafs, hosts, s, l, h>>
    /\ UNCHANGED <<idVars, portVars>>

\* the index without the stride numHostPerLeaf
HostIndex_noStride(ii, jj) == ii + jj

\* the index (i*self.numHostPerLeaf)+j into hosts
HostIndex(ii, jj) == (ii * numHostPerLeaf) + jj

\* the link addLink(leafs[i], hosts[(i*numHostPerLeaf)+j], bw=bwLeafHost,
\* delay=delayLeafHost)
LeafHostLink ==
    Link(leafs[i + 1], hosts[HostIndex(i, j) + 1], <<bwLeafHost>>,
         <<delayLeafHost>>)

\* for i in range(0, numLeaf): for j in range(0, numHostPerLeaf): addLink(...)
My_LinkLeafHost ==
    /\ pc = "my_leaf_host"
    /\ i < numLeaf
    /\ j < numHostPerLeaf
    /\ links' = links \cup {LeafHostLink}
    /\ j' = j + 1
    /\ UNCHANGED <<pc, k, speed, node_specs, edge_specs, nodes, node_info,
                   spines, leafs, hosts, s, l, h, i>>
    /\ UNCHANGED <<idVars, portVars>>

\* inner range(0, numHostPerLeaf) exhausted: next i
My_LeafHostNext ==
    /\ pc = "my_leaf_host"
    /\ i < numLeaf
    /\ j >= numHostPerLeaf
    /\ i' = i + 1
    /\ j' = 0
    /\ UNCHANGED <<pc, k, speed, node_specs, edge_specs, nodes, node_info,
                   links, spines, leafs, hosts, s, l, h>>
    /\ UNCHANGED <<idVars, portVars>>

\* outer range(0, numLeaf) exhausted: __init__ returns the built topology
My_Done ==
    /\ pc = "my_leaf_host"
    /\ i >= numLeaf
    /\ pc' = "my_done"
    /\ UNCHANGED <<topoVars, idVars, portVars>>

\* ------------------------------------------- LeafSpineNodeID callers
\* LeafSpineNodeID(sw, host): an identifier from coordinate fields
ID_FromFields ==
    /\ pc = "start"
    /\ \E sw \in FieldVals, host \in FieldVals :
          ident' = <<LeafSpineNodeID(sw, host, None, None)>>
    /\ pc' = "id"
    /\ UNCHANGED <<topoVars, byHandle, nameOut, byName, portVars>>

\* LeafSpineNodeID(dpid = ident.dpid): sw and host keep their defaults
ID_FromHandle ==
    /\ pc = "id"
    /\ byHandle = None
    /\ byHandle' = <<LeafSpineNodeID(0, 0, <<ident[1].dpid>>, None)>>
    /\ UNCHANGED <<pc, topoVars, ident, nameOut, byName, portVars>>

\* ident.name_str()
ID_NameStr ==
    /\ pc = "id"
    /\ nameOut = None
    /\ nameOut' = <<name_str(ident[1])>>
    /\ UNCHANGED <<pc, topoVars, ident, byHandle, byName, portVars>>

\* LeafSpineNodeID(name = nameOut)
ID_FromName ==
    /\ pc = "id"
    /\ nameOut # None
    /\ byName = None
    /\ byName' = <<LeafSpineNodeID(0, 0, None, nameOut)>>
    /\ UNCHANGED <<pc, topoVars, ident, byHandle, nameOut, portVars>>

\* ------------------------------------------------------------- Next
Next ==
    \/ LS_Start
    \/ LS_AddSpine
    \/ LS_SpinesDone
    \/ LS_AddLeaf
    \/ LS_AddHost
    \/ LS_LinkHost
    \/ LS_HostsDone
    \/ LS_LinkSpine
    \/ LS_SpinesLinked
    \/ LS_Done
    \/ LS_isPortUp
    \/ My_Start
    \/ My_AddSpine
    \/ My_SpinesDone
    \/ My_AddLeaf
    \/ My_LeafsDone
    \/ My_AddHost
    \/ My_HostsDone
    \/ My_LinkSpineLeaf
    \/ My_SpineLeafNext
    \/ My_SpineLeafDone
    \/ My_LinkLeafHost
    \/ My_LeafHostNext
    \/ My_Done
    \/ ID_FromFields
    \/ ID_FromHandle
    \/ ID_NameStr
    \/ ID_FromName

Spec == Init /\ [][Next]_vars

\* ------------------------------------------------------------ claims
\* the positions of LeafSpineTopo.__init__ and of its finished topology
LSBuilding ==
    pc \in {"spine_loop", "leaf_loop", "host_loop", "host_link",
            "uplink_loop", "done"}

\* the larger of two integers' difference
Dist(a, b) == IF a >= b THEN a - b ELSE b - a

\* the elements of a list
Elems(q) == {q[x] : x \in 1 .. Len(q)}

\* C1: handle round-trip.  An identifier built from fields sw, host in
\* 0..255 and rebuilt from its handle (dpid = handle) has the same sw, the
\* same host and the same handle; the pair (0, 0), whose handle is 0, included.
C1_HandleRoundTrip ==
    (/\ ident # None
     /\ byHandle # None
     /\ ident[1].sw \in 0 .. 255
     /\ ident[1].host \in 0 .. 255)
        => /\ byHandle[1].sw = ident[1].sw
           /\ byHandle[1].host = ident[1].host
           /\ byHandle[1].dpid = ident[1].dpid

\* C1 witness: the pair (255, 255), both lanes full, has been rebuilt from its
\* handle
C1_Witness ==
    /\ ident # None
    /\ byHandle # None
    /\ ident[1].sw = 255
    /\ ident[1].host = 255

\* largest index a vertex name of LeafSpineTopo carries in the checked builds
MaxIndex == (MaxK * MaxK) + (2 * MaxK)

\* C2: name round-trip.  Parsing the name name_str() produced gives the same
\* sw, host and handle as the identifier that produced the name: for every
\* identifier built from non-negative fields, and for every vertex of a graph
\* LeafSpineTopo builds (whose name came from id_gen(layer, index)).
C2_NameRoundTrip ==
    /\ (ident # None /\ byName # None)
          => /\ byName[1].sw = ident[1].sw
             /\ byName[1].host = ident[1].host
             /\ byName[1].dpid = ident[1].dpid
    /\ LSBuilding
          => \A n \in nodes :
                \E x \in 0 .. MaxIndex :
                   LET made == LeafSpineNodeID(layer(n), x, None, None)
                       parsed == LeafSpineNodeID(0, 0, None, <<n>>)
                   IN  /\ name_str(made) = n
                       /\ parsed.sw = made.sw
                       /\ parsed.host = made.host
                       /\ parsed.dpid = made.dpid

\* C2 witness: an identifier with a two-digit field and a three-digit field
\* has been named and parsed back
C2_Witness ==
    /\ ident # None
    /\ byName # None
    /\ ident[1].sw = 10
    /\ ident[1].host = 257

\* C3 (as claimed): a field beyond its 8-bit lane is an error, so no
\* identifier and no handle exist for such fields, and a handle never decodes
\* to fields other than those given.
C3_OverflowIsError ==
    /\ ident # None => (ident[1].sw <= 255 /\ ident[1].host <= 255)
    /\ (ident # None /\ byHandle # None)
          => (byHandle[1].sw = ident[1].sw /\ byHandle[1].host = ident[1].host)

\* C4 (as claimed): for an odd k the build fails before any vertex or edge
\* is added, and never finishes.
C4_OddKRejected ==
    (k # None /\ k[1] % 2 = 1)
        => (nodes = {} /\ links = {} /\ pc # "done")

\* C5: structure of the finished LeafSpineTopo for an even k: k spines,
\* 2k leaves, k*k hosts; every leaf has k up-edges, one to each spine, and
\* k/2 down-edges, to hosts; every host has exactly 1 up-edge.
C5_Structure ==
    (pc = "done" /\ k[1] % 2 = 0)
        => /\ Cardinality(layer_nodes(LAYER_SPINE)) = k[1]
           /\ Cardinality(layer_nodes(LAYER_LEAF)) = 2 * k[1]
           /\ Cardinality(layer_nodes(LAYER_HOST)) = k[1] * k[1]
           /\ Cardinality(nodes) = (3 * k[1]) + (k[1] * k[1])
           /\ \A n \in layer_nodes(LAYER_LEAF) :
                 /\ Cardinality(up_edges(n)) = k[1]
                 /\ up_nodes(n) = layer_nodes(LAYER_SPINE)
                 /\ Cardinality(down_edges(n)) = k[1] \div 2
                 /\ down_nodes(n) \subseteq layer_nodes(LAYER_HOST)
           /\ \A n \in layer_nodes(LAYER_HOST) :
                 Cardinality(up_edges(n)) = 1

\* C5 witness: the build for k = 4 has finished with its 16 hosts
C5_Witness ==
    /\ pc = "done"
    /\ k = <<4>>
    /\ Cardinality(layer_nodes(LAYER_HOST)) = 16

\* C6: structure of the finished MyTopo: 1 spine, 2 leaves, 4 hosts; each
\* leaf has 1 link up to the spine and 2 links down to hosts; the spine has 2
\* links down; the host at index i*numHostPerLeaf+j is linked to leaf i only.
C6_MyTopoStructure ==
    pc = "my_done"
        => /\ Len(spines) = 1 /\ Cardinality(Elems(spines)) = 1
           /\ Len(leafs) = 2 /\ Cardinality(Elems(leafs)) = 2
           /\ Len(hosts) = 4 /\ Cardinality(Elems(hosts)) = 4
           /\ Cardinality(nodes) = 7
           /\ nodes = Elems(spines) \cup Elems(leafs) \cup Elems(hosts)
           /\ \A n \in Elems(leafs) :
                 /\ Cardinality(g(n) \cap Elems(spines)) = 1
                 /\ Cardinality(g(n) \cap Elems(hosts)) = 2
                 /\ Cardinality(g(n)) = 3
           /\ \A n \in Elems(spines) :
                 /\ Cardinality(g(n)) = 2
                 /\ g(n) = Elems(leafs)
           /\ \A x \in 0 .. (Len(hosts) - 1) :
                 g(hosts[x + 1]) = {leafs[(x \div numHostPerLeaf) + 1]}
           /\ Cardinality(links) = 6

\* C6 witness: MyTopo has finished and its last host is linked to its last leaf
C6_Witness ==
    /\ pc = "my_done"
    /\ leafs[2] \in g(hosts[4])

\* C7: in every state of the LeafSpineTopo build, and in the finished graph,
\* every edge joins two vertices whose layers differ by exactly 1, and every
\* neighbour of a vertex is in exactly one of up_nodes and down_nodes.
C7_AdjacentLayers ==
    LSBuilding
        => /\ \A e \in links :
                 /\ e.node1 \in nodes
                 /\ e.node2 \in nodes
                 /\ Dist(layer(e.node1), layer(e.node2)) = 1
           /\ \A v \in nodes :
                 \A n \in g(v) :
                    (n \in up_nodes(v)) # (n \in down_nodes(v))

\* C7 witness: a state in the middle of the build that holds a host-leaf edge
\* and a leaf-spine edge
C7_Witness ==
    /\ pc = "host_link"
    /\ \E e \in links : layer(e.node1) = LAYER_HOST
    /\ \E e \in links : layer(e.node2) = LAYER_SPINE

\* C8 (as claimed): in the finished LeafSpineTopo node_specs has one spec per
\* layer and every vertex at layer L has node_specs[L].up_total up-neighbours
\* and node_specs[L].down_total down-neighbours.
C8_NodeSpecsMatch ==
    (pc = "done" /\ k[1] % 2 = 0)
        => /\ Len(node_specs) = 3
           /\ \A n \in nodes :
                 /\ Cardinality(up_nodes(n))
                       = node_specs[layer(n) + 1].up_total
                 /\ Cardinality(down_nodes(n))
                       = node_specs[layer(n) + 1].down_total

\* C9: port parity.  isPortUp(PORT_BASE) is true, isPortUp(PORT_BASE + 1) is
\* false, and for every port p >= PORT_BASE isPortUp(p) is true exactly when
\* p - PORT_BASE is even, whatever graph was built.
C9_PortParity ==
    (port # None /\ port[1] >= PORT_BASE)
        => /\ portUp[1] <=> ((port[1] - PORT_BASE) % 2 = 0)
           /\ port[1] = PORT_BASE => portUp[1]
           /\ port[1] = PORT_BASE + 1 => ~portUp[1]

\* C9 witness: a non-empty built graph was asked about port PORT_BASE + 3
C9_Witness ==
    /\ port = <<PORT_BASE + 3>>
    /\ portUp = <<FALSE>>
    /\ links # {}

\* C10 (as claimed): every edge carries the bandwidth declared for its pair
\* of layers: edge_specs[L].speed in LeafSpineTopo, bwSpineLeaf and bwLeafHost
\* in MyTopo.
C10_BandwidthApplied ==
    /\ LSBuilding
          => \A e \in links :
                LET L == IF layer(e.node1) < layer(e.node2)
                         THEN layer(e.node1) ELSE layer(e.node2)
                IN  e.bw = <<edge_specs[L + 1].speed>>
    /\ pc \in {"my_spine_leaf", "my_leaf_host", "my_done"}
          => \A e \in links :
                /\ (e.node1 \in Elems(spines)) => e.bw = <<bwSpineLeaf>>
                /\ (e.node1 \in Elems(leafs)) => e.bw = <<bwLeafHost>>

====
